---------------------------- MODULE Spec2Model ----------------------------
(***************************************************************************)
(* all-pairs-edit-distance (src/src/main.cpp): main() checks the command   *)
(* line, load() reads the tab separated input into records whose id and    *)
(* tokens are string_views into the buffered lines, run() hands every pair *)
(* (i, j), i < j, to process() from an OpenMP parallel loop, and process() *)
(* computes one slow_edit_distance per field and writes one line under     *)
(* output_lock.                                                            *)
(*                                                                         *)
(* Text is a sequence of one-character strings, so that splitting, views   *)
(* (offset, length) and token comparison are computed, not assumed.        *)
(***************************************************************************)
EXTENDS Integers, Sequences, FiniteSets, Bags, TLC

VARIABLES
    argv,       \* the command line, argv[1] is the program name (C's argv[0])
    disk,       \* what the path argv[1] of C names: NoFile or a text file
    nthreads,   \* size of the OpenMP team of the parallel loop
    pc,         \* position of the main thread
    exitStatus, \* the value main returned, -1 while running
    cerr,       \* diagnostics written so far
    fp,         \* load: the ifstream (pos, eofbit, failbit)
    line,       \* load: the std::string line
    buffer,     \* load: std::vector<std::string> buffer (the characters)
    cap,        \* load: capacity of buffer's storage
    dangling,   \* indices of buffer whose inline characters were relocated
    lines,      \* load: std::vector<Line> lines (records of views)
    num_fields, \* load: ssize_t num_fields
    junked,     \* dangling indices whose freed storage no longer holds the text
    fout,       \* run: what was inserted into the ofstream, in order
    progbar,    \* run: Progbar (current, total, bar)
    output_lock,\* 0 when free, else the thread holding the mutex
    taken,      \* outer indices i already handed to a thread
    wpc, wi, wj, weds, wk, \* per thread: position, i, j, eds, next ed to write
    calls,      \* bag of pairs process() was called with
    one, two, edpc, ed  \* the distance kernel on its own: inputs, position, result

vars == << argv, disk, nthreads, pc, exitStatus, cerr, fp, line, buffer, cap,
           dangling, lines, num_fields, junked, fout, progbar, output_lock,
           taken, wpc, wi, wj, weds, wk, calls, one, two, edpc, ed >>

progVars == << argv, disk, nthreads, pc, exitStatus, cerr, fp, line, buffer,
               cap, dangling, lines, num_fields, junked, fout, progbar,
               output_lock, taken, wpc, wi, wj, weds, wk, calls >>

kernelVars == << one, two, edpc, ed >>

-----------------------------------------------------------------------------
(* Bounds of the model.                                                    *)

\* longest token sequence handed to the distance kernel on its own
MaxLen == 3
\* most lines of an input file in a serial run
MaxLines == 3
\* most lines of an input file in a parallel run
ParLines == 3
\* largest OpenMP team
NumThreads == 2
\* most arguments after the program name
MaxArgs == 3
\* width of size_t in the model; it is 64 on the platforms the program is
\* built for, and the model keeps the arithmetic modulo 2^SizeBits
SizeBits == 16

SizeMod == 2 ^ SizeBits

-----------------------------------------------------------------------------
(* Characters and text.                                                    *)

TAB == "\t"
SP == " "

Min2(a, b) == IF a <= b THEN a ELSE b

Max2(a, b) == IF a >= b THEN a ELSE b

\* one.size() of a std::string / std::string_view / std::vector
Size(s) == Len(s)

-----------------------------------------------------------------------------
(* slow_edit_distance, lines 123-157.                                      *)

\* lines 130-133: the number of trailing tokens dropped from both sequences
RECURSIVE StripSuffix(_, _, _, _)
StripSuffix(a, b, len1, len2) ==
    IF len1 > 0 /\ len2 > 0 /\ a[len1] = b[len2]
    THEN StripSuffix(a, b, len1 - 1, len2 - 1)
    ELSE << len1, len2 >>

\* a substitution that costs 2: the "1 +" of line 152 doubled
CellMutSubst(eq, diag, up, left) ==
    IF eq THEN diag ELSE 2 + Min2(diag, Min2(up, left))

\* lines 149-152: one cell of the table
Cell(eq, diag, up, left) ==
    IF eq THEN diag ELSE 1 + Min2(diag, Min2(up, left))

\* lines 147-153: row i of the table from row i-1; row[j+1] holds matrix.at(i, j)
RECURSIVE MatrixRow(_, _, _, _, _, _)
MatrixRow(a, b, prev, i, len2, row) ==
    LET j == Len(row)
    IN  IF j > len2 THEN row
        ELSE MatrixRow(a, b, prev, i, len2,
                 Append(row, Cell(a[i] = b[j], prev[j], prev[j + 1], row[j])))

\* lines 146-154: the rows 1..len1, starting from row 0
RECURSIVE MatrixRows(_, _, _, _, _, _)
MatrixRows(a, b, prev, i, len1, len2) ==
    IF i > len1 THEN prev
    ELSE MatrixRows(a, b, MatrixRow(a, b, prev, i, len2, << i >>),
                    i + 1, len1, len2)

\* the kernel with the suffix loop of lines 130-133 dropping one last token
\* of each sequence whether or not the two are equal
slow_edit_distance_mut(a, b) ==
    LET len1 == Max2(Size(a) - 1, 0)
        len2 == Max2(Size(b) - 1, 0)
    IN  IF len1 = 0 THEN len2
        ELSE IF len2 = 0 THEN len1
        ELSE MatrixRows(a, b, [j \in 1..(len2 + 1) |-> j - 1],
                        1, len1, len2)[len2 + 1]

slow_edit_distance(a, b) ==
    LET st == StripSuffix(a, b, Size(a), Size(b))
        len1 == st[1]
        len2 == st[2]
    IN  IF len1 = 0 THEN len2
        ELSE IF len2 = 0 THEN len1
        ELSE MatrixRows(a, b, [j \in 1..(len2 + 1) |-> j - 1],
                        1, len1, len2)[len2 + 1]

-----------------------------------------------------------------------------
(* The distance kernel on its own: token sequences over a small alphabet.  *)

Alphabet == {"x", "y"}

TokenSeqs == UNION {[1..n -> Alphabet] : n \in 0..MaxLen}

\* The sequences one single-token insertion, deletion or substitution away
\* from s, none longer than maxLen.
Edits(s, maxLen) ==
    {[s EXCEPT ![p] = t] : p \in 1..Len(s), t \in Alphabet}
    \cup {SubSeq(s, 1, p - 1) \o SubSeq(s, p + 1, Len(s)) : p \in 1..Len(s)}
    \cup (IF Len(s) < maxLen
          THEN {SubSeq(s, 1, p) \o << t >> \o SubSeq(s, p + 1, Len(s)) :
                    p \in 0..Len(s), t \in Alphabet}
          ELSE {})

\* The sequences at most k single-token edits away from a.
RECURSIVE Within(_, _, _)
Within(a, k, maxLen) ==
    IF k = 0 THEN {a}
    ELSE LET near == Within(a, k - 1, maxLen)
         IN  near \cup UNION {Edits(s, maxLen) : s \in near}

\* The Levenshtein distance by its definition: the least number of
\* single-token edits that turn a into b.  A shortest edit script never
\* needs a sequence longer than the longer of a and b.
Levenshtein(a, b) ==
    LET maxLen == Max2(Len(a), Len(b))
    IN  CHOOSE k \in 0..maxLen :
            /\ b \in Within(a, k, maxLen)
            /\ \A m \in 0..(k - 1) : b \notin Within(a, m, maxLen)

\* the state of the program before it is started
ProgramOff ==
    /\ argv = << "aped" >>
    /\ disk = "NoFile"
    /\ nthreads = 1
    /\ pc = "off"
    /\ exitStatus = -1
    /\ cerr = << >>
    /\ fp = [pos |-> 1, eofbit |-> FALSE, failbit |-> FALSE]
    /\ line = << >>
    /\ buffer = << >>
    /\ cap = 0
    /\ dangling = {}
    /\ lines = << >>
    /\ num_fields = -1
    /\ junked = {}
    /\ fout = << >>
    /\ progbar = [current |-> 0, total |-> 0, bar |-> 0]
    /\ output_lock = 0
    /\ taken = {}
    /\ wpc = << >>
    /\ wi = << >>
    /\ wj = << >>
    /\ weds = << >>
    /\ wk = << >>
    /\ calls = EmptyBag

InitDist ==
    /\ ProgramOff
    /\ one \in TokenSeqs
    /\ two \in TokenSeqs
    /\ edpc = "call"
    /\ ed = 0

\* a call slow_edit_distance(one, two), as at line 232
EditDistance ==
    /\ edpc = "call"
    /\ ed' = slow_edit_distance(one, two)
    /\ edpc' = "ret"
    /\ UNCHANGED << one, two >>
    /\ UNCHANGED progVars

NextDist == EditDistance

SpecDist == InitDist /\ [][NextDist]_vars

\* C2: for all token sequences one and two, slow_edit_distance(one, two) is
\* the Levenshtein distance of one and two, the least number of single-token
\* insertions, deletions and substitutions turning one into two; the suffix
\* stripping and the early returns do not change it.
C2_KernelIsLevenshtein ==
    edpc = "ret" => ed = Levenshtein(one, two)

\* a call whose sequences share a suffix, differ before it, and need the table
C2_Witness ==
    /\ edpc = "ret"
    /\ Len(one) >= 2 /\ Len(two) >= 2 /\ Len(one) # Len(two)
    /\ one[Len(one)] = two[Len(two)]
    /\ StripSuffix(one, two, Len(one), Len(two))[1] > 0
    /\ StripSuffix(one, two, Len(one), Len(two))[2] > 0
    /\ ed = 2

-----------------------------------------------------------------------------
(* string_split, lines 159-176.  A view is an offset from from.data() and  *)
(* a length, as the std::string_view of lines 168 and 173.                 *)

npos == -1

\* from.find(c, current): the first offset >= current holding c, or npos
RECURSIVE Find(_, _, _)
Find(from, c, current) ==
    IF current >= Size(from) THEN npos
    ELSE IF from[current + 1] = c THEN current
    ELSE Find(from, c, current + 1)

\* lines 166-173: the loop and the last piece, which is pushed only when it
\* is not empty
RECURSIVE SplitLoop(_, _, _, _)
SplitLoop(from, c, current, output) ==
    LET next == Find(from, c, current)
    IN  IF next # npos
        THEN SplitLoop(from, c, next + 1,
                       Append(output, [off |-> current, len |-> next - current]))
        ELSE IF current # Size(from)
        THEN Append(output, [off |-> current, len |-> Size(from) - current])
        ELSE output

string_split(from, c) == SplitLoop(from, c, 0, << >>)

\* the characters a piece of text holds at a view
Slice(text, v) == SubSeq(text, v.off + 1, v.off + v.len)

-----------------------------------------------------------------------------
(* Input files.                                                            *)

NoFile == [exists |-> FALSE, text |-> << >>, nl |-> FALSE]

LineShort == << "a", TAB, "x" >>
LineTwoTokens == << "b", TAB, "x", SP, "y" >>
LineTwoFields == << "c", TAB, "x", TAB, "y" >>
LineOneChunk == << "z" >>
LineBlank == << >>
LineLong == << "d", TAB, "x", SP, "y", SP, "x", SP, "y", SP,
               "x", SP, "y", SP, "x", SP, "y" >>

LineSet == {LineShort, LineTwoTokens, LineTwoFields, LineOneChunk, LineBlank,
            LineLong}

\* line k of the input of a parallel run: the lines differ in their id, odd
\* ones are too long to be stored inline, even ones are short
ParIds == << "p", "q", "r", "s", "t", "u" >>

ParLine(k) ==
    << ParIds[((k - 1) % Len(ParIds)) + 1], TAB >>
    \o (IF k % 2 = 1
        THEN << "x", "y", "x", "y", "x", "y", "x", SP,
                "y", "x", "y", "x", "y", "x", "y" >>
        ELSE << "y", SP, "x" >>)

ParFile(n) == [exists |-> TRUE, text |-> [k \in 1..n |-> ParLine(k)], nl |-> TRUE]

\* the end-to-end example of the specification
HelloFile ==
    [exists |-> TRUE,
     text |-> << << "a", TAB, "h", "e", "l", "l", "o", SP, "w", "o", "r", "l", "d" >>,
                 << "b", TAB, "h", "a", "l", "l", "o", SP, "w", "o", "r", "l", "d" >> >>,
     nl |-> TRUE]

\* text files of at most n lines; nl says whether the last line ends in a
\* newline (a file that ends in a blank line without one is the shorter file)
Files(lineSet, n) ==
    {[exists |-> TRUE, text |-> t, nl |-> b] :
        t \in UNION {[1..k -> lineSet] : k \in 0..n}, b \in BOOLEAN}

WellFormedFile(f) ==
    /\ f.text = << >> => ~f.nl
    /\ (f.text # << >> /\ ~f.nl) => f.text[Len(f.text)] # << >>

ArgSet == {"--help", "--version", "f"}

ArgvSet == {<< "aped" >> \o a : a \in UNION {[1..k -> ArgSet] : k \in 0..MaxArgs}}

\* the command lines that get past the checks of main, lines 272-283
Runs(av) ==
    /\ Len(av) >= 3
    /\ av[2] \notin {"--help", "--version"}
    /\ av[3] \notin {"--help", "--version"}

-----------------------------------------------------------------------------
(* main, lines 268-288.                                                    *)

EXIT_SUCCESS == 0
EXIT_FAILURE == 1

KernelOff ==
    /\ one = << >>
    /\ two = << >>
    /\ edpc = "off"
    /\ ed = 0

\* the program at the start of main, before anything ran
ProgramStart(av, d, t) ==
    /\ argv = av
    /\ disk = d
    /\ nthreads = t
    /\ pc = "main"
    /\ exitStatus = -1
    /\ cerr = << >>
    /\ fp = [pos |-> 1, eofbit |-> FALSE, failbit |-> FALSE]
    /\ line = << >>
    /\ buffer = << >>
    /\ cap = 0
    /\ dangling = {}
    /\ lines = << >>
    /\ num_fields = -1
    /\ junked = {}
    /\ fout = << >>
    /\ progbar = [current |-> 0, total |-> 0, bar |-> 0]
    /\ output_lock = 0
    /\ taken = {}
    /\ wpc = << >>
    /\ wi = << >>
    /\ wj = << >>
    /\ weds = << >>
    /\ wk = << >>
    /\ calls = EmptyBag

\* the file is read only by a command line that reaches load(); arguments
\* after the second are never looked at, so the files are varied under the
\* two-argument command line and the longer ones run the example
DiskFor(av, files) ==
    IF ~Runs(av) THEN {NoFile}
    ELSE IF Len(av) = 3 THEN files \cup {NoFile}
    ELSE {HelloFile}

\* runs of one thread over every file of at most MaxLines lines and the
\* example
Init ==
    /\ KernelOff
    /\ \E av \in ArgvSet :
       \E d \in DiskFor(av, {f \in Files(LineSet, MaxLines) : WellFormedFile(f)}
                              \cup {HelloFile}) :
          ProgramStart(av, d, 1)

\* runs of teams of up to NumThreads threads over the files of at most
\* ParLines lines ParLine(k) and the example
InitPar ==
    /\ KernelOff
    /\ \E av \in ArgvSet :
       \E d \in DiskFor(av, {ParFile(n) : n \in 0..ParLines} \cup {HelloFile}) :
       \E t \in 1..NumThreads :
          ProgramStart(av, d, t)

mainVars == << argv, disk, nthreads >>
loadVars == << fp, line, buffer, cap, dangling, lines, num_fields >>
runVars == << junked, fout, progbar, output_lock, taken, wpc, wi, wj, weds,
              wk, calls >>

\* line 272: argc < 3
TooFewArgs(av) == Len(av) < 3

\* line 276; evaluated only when argc >= 3
IsHelp(av) == av[2] = "--help" \/ av[3] = "--help"

\* line 280
IsVersion(av) == av[2] = "--version" \/ av[3] = "--version"

\* lines 272-275
MainUsage ==
    /\ pc = "main"
    /\ TooFewArgs(argv)
    /\ cerr' = Append(cerr, << "usage" >>)
    /\ exitStatus' = EXIT_FAILURE
    /\ pc' = "exit"
    /\ UNCHANGED << mainVars, loadVars, runVars, kernelVars >>

\* lines 276-279
MainHelp ==
    /\ pc = "main"
    /\ ~TooFewArgs(argv)
    /\ IsHelp(argv)
    /\ cerr' = Append(cerr, << "usage" >>)
    /\ exitStatus' = EXIT_SUCCESS
    /\ pc' = "exit"
    /\ UNCHANGED << mainVars, loadVars, runVars, kernelVars >>

\* lines 280-283
MainVersion ==
    /\ pc = "main"
    /\ ~TooFewArgs(argv)
    /\ ~IsHelp(argv)
    /\ IsVersion(argv)
    /\ cerr' = Append(cerr, << "version" >>)
    /\ exitStatus' = EXIT_SUCCESS
    /\ pc' = "exit"
    /\ UNCHANGED << mainVars, loadVars, runVars, kernelVars >>

\* line 285 up to the loop of load: run() calls load(), which opens the
\* file (lines 188-194); an ifstream that cannot open its file has failbit
\* set and eofbit clear
MainRun ==
    /\ pc = "main"
    /\ ~TooFewArgs(argv)
    /\ ~IsHelp(argv)
    /\ ~IsVersion(argv)
    /\ fp' = [pos |-> 1, eofbit |-> FALSE, failbit |-> ~disk.exists]
    /\ line' = << >>
    /\ buffer' = << >>
    /\ cap' = 0
    /\ lines' = << >>
    /\ num_fields' = -1
    /\ pc' = "load_while"
    /\ UNCHANGED << mainVars, exitStatus, cerr, dangling, runVars, kernelVars >>

-----------------------------------------------------------------------------
(* load, lines 184-222.                                                    *)

\* the longest text a std::string keeps inside the string object itself
\* (libstdc++: 15 characters); longer text lives in a heap block of its own
SsoCapacity == 15

\* whether the characters of a stored line are inside the string object,
\* and so inside the storage of the vector that holds the object
IsInline(text) == Size(text) <= SsoCapacity

\* the capacity of buffer after an emplace_back that finds it full
Grow(c) == IF c = 0 THEN 1 ELSE 2 * c

\* the views toks, offsets into a chunk, as offsets into the text the chunk
\* is a view of
RECURSIVE Rebase(_, _, _)
Rebase(chunk, toks, out) ==
    IF Len(out) = Len(toks) THEN out
    ELSE LET v == toks[Len(out) + 1]
         IN  Rebase(chunk, toks,
                    Append(out, [off |-> chunk.off + v.off, len |-> v.len]))

\* lines 215-216: parsed.fields, one string_split(chunks[i], ' ') per chunk
\* after the first
RECURSIVE ParseFields(_, _, _)
ParseFields(text, chunks, out) ==
    IF Len(out) + 1 >= Len(chunks) THEN out
    ELSE LET chunk == chunks[Len(out) + 2]
         IN  ParseFields(text, chunks,
                 Append(out, Rebase(chunk, string_split(Slice(text, chunk), SP), << >>)))

\* lines 208, 215-216: the Line of the text stored at buffer[idx]; every view
\* is an offset into that text
ParseLine(text, idx) ==
    LET chunks == string_split(text, TAB)
    IN  [idx |-> idx, id |-> chunks[1], fields |-> ParseFields(text, chunks, << >>)]

\* line 203 with < in place of <=
MalformedMut(chunks) == Size(chunks) < 1

\* line 203
Malformed(chunks) == Size(chunks) <= 1

\* line 211 (num_fields >= 0)
FieldCountDiffers(chunks, nf) == Size(chunks) - 1 # nf

\* lines 196-197: the loop test and std::getline.  getline on a stream that
\* is not good() sets failbit and leaves line alone; at the end of the file
\* it erases line and sets eofbit and failbit; reading a last line that has
\* no newline sets eofbit alone
LoadGetline ==
    /\ pc = "load_while"
    /\ ~fp.eofbit
    /\ IF fp.failbit
       THEN UNCHANGED << fp, line >>
       ELSE IF fp.pos > Len(disk.text)
       THEN /\ line' = << >>
            /\ fp' = [fp EXCEPT !.eofbit = TRUE, !.failbit = TRUE]
       ELSE /\ line' = disk.text[fp.pos]
            /\ fp' = [fp EXCEPT !.pos = @ + 1,
                                !.eofbit = (fp.pos = Len(disk.text) /\ ~disk.nl)]
    /\ pc' = "load_line"
    /\ UNCHANGED << mainVars, exitStatus, cerr, buffer, cap, dangling, lines,
                    num_fields, runVars, kernelVars >>

\* lines 198-199
LoadBlank ==
    /\ pc = "load_line"
    /\ line = << >>
    /\ pc' = "load_while"
    /\ UNCHANGED << mainVars, exitStatus, cerr, loadVars, runVars, kernelVars >>

\* lines 200-218: the line is moved into buffer, which relocates the stored
\* strings when it is full, and is split there
LoadParse ==
    /\ pc = "load_line"
    /\ line # << >>
    /\ LET idx == Len(buffer) + 1
           full == Len(buffer) = cap
           chunks == string_split(line, TAB)
           \* lines 203-206 and 211-214: reported and skipped
           dropped == \/ Malformed(chunks)
                      \/ num_fields >= 0 /\ FieldCountDiffers(chunks, num_fields)
       IN  /\ buffer' = Append(buffer, line)
           /\ cap' = IF full THEN Grow(cap) ELSE cap
           /\ dangling' = IF full
                          THEN dangling \cup {k \in 1..Len(buffer) : IsInline(buffer[k])}
                          ELSE dangling
           /\ line' = << >>
           /\ cerr' = IF dropped THEN Append(cerr, << "malformed line: " >> \o line)
                       ELSE cerr
           /\ num_fields' = IF ~Malformed(chunks) /\ num_fields < 0
                             THEN Size(chunks) - 1
                             ELSE num_fields
           /\ lines' = IF dropped THEN lines ELSE Append(lines, ParseLine(line, idx))
    /\ pc' = "load_while"
    /\ UNCHANGED << mainVars, exitStatus, fp, runVars, kernelVars >>

\* lines 196 and 221: the loop ends once eofbit is set; buffer and lines are
\* moved out, which keeps the storage of both vectors
LoadReturn ==
    /\ pc = "load_while"
    /\ fp.eofbit
    /\ pc' = "run_setup"
    /\ UNCHANGED << mainVars, exitStatus, cerr, loadVars, runVars, kernelVars >>

-----------------------------------------------------------------------------
(* Progbar, lines 37-102.                                                  *)

LENGTH == 40

\* line 47
PrintMod(total) == Max2(1, total \div 100000)

\* print(), lines 46-87, for total > 0: the bar length of line 59
ProgbarPrint(p) ==
    IF p.current % PrintMod(p.total) # 0 THEN p
    ELSE [p EXCEPT !.bar = (p.current * LENGTH) \div p.total]

\* inc() without the test of line 97
IncMut(p) == ProgbarPrint([p EXCEPT !.current = @ + 2])

\* inc(), lines 96-101
Inc(p) ==
    IF p.current >= p.total THEN p
    ELSE ProgbarPrint([p EXCEPT !.current = @ + 1])

\* line 250: lines.size() * (lines.size()-1) / 2 in size_t
TotalPairs(n) == ((n * ((n - 1) % SizeMod)) % SizeMod) \div 2

-----------------------------------------------------------------------------
(* run and process, lines 224-258.                                         *)

NumRecords == Len(lines)

\* what a read through a view of record r yields: the characters of the
\* line, unless the view dangles and the freed storage was overwritten
Junk(len) == [k \in 1..len |-> "?"]

Read(r, v) == IF r.idx \in junked THEN Junk(v.len) ELSE Slice(buffer[r.idx], v)

\* field f of record r as process hands it to the kernel
RECURSIVE ReadAll(_, _, _)
ReadAll(r, views, out) ==
    IF Len(out) = Len(views) THEN out
    ELSE ReadAll(r, views, Append(out, Read(r, views[Len(out) + 1])))

FieldTokens(r, f) == ReadAll(r, r.fields[f], << >>)

\* lines 227-232
Eds(r1, r2) ==
    [f \in 1..Size(r1.fields) |->
        slow_edit_distance(FieldTokens(r1, f), FieldTokens(r2, f))]

\* line 254 with j = i in place of j = i + 1
JStartMut(i) == i

\* line 254: the first j of the inner loop
JStart(i) == i + 1

\* line 235 without the mutex
LockFreeMut == TRUE

\* line 235: the lock_guard can take output_lock
LockFree == output_lock = 0

\* lines 248-251: the output file is created, then Progbar's constructor
\* calls print() with current = 0.  With total = 0 line 59 divides by zero:
\* the process is killed (SIGFPE) or goes on with some quotient
RunSetup ==
    /\ pc = "run_setup"
    /\ fout' = << >>
    /\ LET total == TotalPairs(NumRecords)
       IN  IF total = 0
           THEN \/ /\ progbar' = [current |-> 0, total |-> 0, bar |-> 0]
                   /\ pc' = "crashed"
                \/ /\ progbar' = [current |-> 0, total |-> 0, bar |-> 0]
                   /\ pc' = "fork"
           ELSE /\ progbar' = ProgbarPrint([current |-> 0, total |-> total, bar |-> 0])
                /\ pc' = "fork"
    /\ UNCHANGED << mainVars, exitStatus, cerr, loadVars, junked, output_lock,
                    taken, wpc, wi, wj, weds, wk, calls, kernelVars >>

\* line 252: the team starts.  What the dangling views will read is fixed
\* here: each relocated inline line either still reads as its text or not
RunFork ==
    /\ pc = "fork"
    /\ junked' \in SUBSET (dangling \cap {lines[k].idx : k \in 1..NumRecords})
    /\ wpc' = [t \in 1..nthreads |-> "idle"]
    /\ wi' = [t \in 1..nthreads |-> 0]
    /\ wj' = [t \in 1..nthreads |-> 0]
    /\ weds' = [t \in 1..nthreads |-> << >>]
    /\ wk' = [t \in 1..nthreads |-> 0]
    /\ pc' = "parallel"
    /\ UNCHANGED << mainVars, exitStatus, cerr, loadVars, fout, progbar,
                    output_lock, taken, calls, kernelVars >>

\* line 253: a thread gets an iteration i of the outer loop that no thread
\* had, and starts its inner loop
WorkerTake(t) ==
    /\ pc = "parallel"
    /\ wpc[t] = "idle"
    /\ \E i \in (1..NumRecords) \ taken :
          /\ taken' = taken \cup {i}
          /\ wi' = [wi EXCEPT ![t] = i]
          /\ wj' = [wj EXCEPT ![t] = JStart(i)]
    /\ wpc' = [wpc EXCEPT ![t] = "inner"]
    /\ UNCHANGED << mainVars, pc, exitStatus, cerr, loadVars, junked, fout,
                    progbar, output_lock, weds, wk, calls, kernelVars >>

\* lines 254-255, 227-232: the inner loop calls process, which computes eds
WorkerProcess(t) ==
    /\ pc = "parallel"
    /\ wpc[t] = "inner"
    /\ wj[t] <= NumRecords
    /\ calls' = calls (+) SetToBag({<< wi[t], wj[t] >>})
    /\ weds' = [weds EXCEPT ![t] = Eds(lines[wi[t]], lines[wj[t]])]
    /\ wpc' = [wpc EXCEPT ![t] = "lock"]
    /\ UNCHANGED << mainVars, pc, exitStatus, cerr, loadVars, junked, fout,
                    progbar, output_lock, taken, wi, wj, wk, kernelVars >>

\* line 254: the inner loop ends
WorkerInnerEnd(t) ==
    /\ pc = "parallel"
    /\ wpc[t] = "inner"
    /\ wj[t] > NumRecords
    /\ wpc' = [wpc EXCEPT ![t] = "idle"]
    /\ UNCHANGED << mainVars, pc, exitStatus, cerr, loadVars, junked, fout,
                    progbar, output_lock, taken, wi, wj, weds, wk, calls,
                    kernelVars >>

\* line 235
Lock(t) ==
    /\ pc = "parallel"
    /\ wpc[t] = "lock"
    /\ LockFree
    /\ output_lock' = t
    /\ wpc' = [wpc EXCEPT ![t] = "write_ids"]
    /\ UNCHANGED << mainVars, pc, exitStatus, cerr, loadVars, junked, fout,
                    progbar, taken, wi, wj, weds, wk, calls, kernelVars >>

\* an item inserted into fout by the call process(lines[i], lines[j])
Item(i, j, kind, id1, id2, d) ==
    [by |-> << i, j >>, kind |-> kind, id1 |-> id1, id2 |-> id2, ed |-> d]

\* line 236: fout << one.id << "\t" << two.id
WriteIds(t) ==
    /\ pc = "parallel"
    /\ wpc[t] = "write_ids"
    /\ LET r1 == lines[wi[t]]
           r2 == lines[wj[t]]
       IN  fout' = Append(fout, Item(wi[t], wj[t], "ids",
                                     Read(r1, r1.id), Read(r2, r2.id), 0))
    /\ wk' = [wk EXCEPT ![t] = 1]
    /\ wpc' = [wpc EXCEPT ![t] = "write_eds"]
    /\ UNCHANGED << mainVars, pc, exitStatus, cerr, loadVars, junked, progbar,
                    output_lock, taken, wi, wj, weds, calls, kernelVars >>

\* lines 237-238: fout << "\t" << ed, once per element of eds
WriteEd(t) ==
    /\ pc = "parallel"
    /\ wpc[t] = "write_eds"
    /\ wk[t] <= Size(weds[t])
    /\ fout' = Append(fout, Item(wi[t], wj[t], "ed", << >>, << >>, weds[t][wk[t]]))
    /\ wk' = [wk EXCEPT ![t] = @ + 1]
    /\ UNCHANGED << mainVars, pc, exitStatus, cerr, loadVars, junked, progbar,
                    output_lock, taken, wpc, wi, wj, weds, calls, kernelVars >>

\* line 239: fout << "\n"
WriteNl(t) ==
    /\ pc = "parallel"
    /\ wpc[t] = "write_eds"
    /\ wk[t] > Size(weds[t])
    /\ fout' = Append(fout, Item(wi[t], wj[t], "nl", << >>, << >>, 0))
    /\ wpc' = [wpc EXCEPT ![t] = "inc"]
    /\ UNCHANGED << mainVars, pc, exitStatus, cerr, loadVars, junked, progbar,
                    output_lock, taken, wi, wj, weds, wk, calls, kernelVars >>

\* line 240: progbar.inc()
ProgbarInc(t) ==
    /\ pc = "parallel"
    /\ wpc[t] = "inc"
    /\ progbar' = Inc(progbar)
    /\ wpc' = [wpc EXCEPT ![t] = "unlock"]
    /\ UNCHANGED << mainVars, pc, exitStatus, cerr, loadVars, junked, fout,
                    output_lock, taken, wi, wj, weds, wk, calls, kernelVars >>

\* line 241: the lock_guard releases output_lock; process returns and the
\* inner loop of line 254 goes on with j + 1
Unlock(t) ==
    /\ pc = "parallel"
    /\ wpc[t] = "unlock"
    /\ output_lock' = 0
    /\ wj' = [wj EXCEPT ![t] = @ + 1]
    /\ weds' = [weds EXCEPT ![t] = << >>]
    /\ wk' = [wk EXCEPT ![t] = 0]
    /\ wpc' = [wpc EXCEPT ![t] = "inner"]
    /\ UNCHANGED << mainVars, pc, exitStatus, cerr, loadVars, junked, fout,
                    progbar, taken, wi, calls, kernelVars >>

\* lines 257-258, 287: every iteration was run and every thread is at the
\* barrier; run returns, closing fout, and main returns EXIT_SUCCESS
RunJoin ==
    /\ pc = "parallel"
    /\ taken = 1..NumRecords
    /\ \A t \in 1..nthreads : wpc[t] = "idle"
    /\ exitStatus' = EXIT_SUCCESS
    /\ pc' = "exit"
    /\ UNCHANGED << mainVars, cerr, loadVars, runVars, kernelVars >>

\* a step of thread t of the team
Worker(t) ==
    \/ WorkerTake(t)
    \/ WorkerProcess(t)
    \/ WorkerInnerEnd(t)
    \/ Lock(t)
    \/ WriteIds(t)
    \/ WriteEd(t)
    \/ WriteNl(t)
    \/ ProgbarInc(t)
    \/ Unlock(t)

\* a step of the main thread
MainThread ==
    \/ MainUsage
    \/ MainHelp
    \/ MainVersion
    \/ MainRun
    \/ LoadGetline
    \/ LoadBlank
    \/ LoadParse
    \/ LoadReturn
    \/ RunSetup
    \/ RunFork
    \/ RunJoin

Next ==
    \/ MainUsage
    \/ MainHelp
    \/ MainVersion
    \/ MainRun
    \/ LoadGetline
    \/ LoadBlank
    \/ LoadParse
    \/ LoadReturn
    \/ RunSetup
    \/ RunFork
    \/ RunJoin
    \/ \E t \in 1..nthreads : WorkerTake(t)
    \/ \E t \in 1..nthreads : WorkerProcess(t)
    \/ \E t \in 1..nthreads : WorkerInnerEnd(t)
    \/ \E t \in 1..nthreads : Lock(t)
    \/ \E t \in 1..nthreads : WriteIds(t)
    \/ \E t \in 1..nthreads : WriteEd(t)
    \/ \E t \in 1..nthreads : WriteNl(t)
    \/ \E t \in 1..nthreads : ProgbarInc(t)
    \/ \E t \in 1..nthreads : Unlock(t)

Spec == Init /\ [][Next]_vars

SpecPar == InitPar /\ [][Next]_vars

\* every thread keeps running while it can take a step
FairSpec ==
    /\ Spec
    /\ WF_vars(MainThread)
    /\ \A t \in 1..NumThreads : WF_vars(t <= nthreads /\ Worker(t))

-----------------------------------------------------------------------------
(* What the claims speak of.                                               *)

\* load() has returned to run()
Loaded == pc \in {"run_setup", "crashed", "fork", "parallel"}
          \/ (pc = "exit" /\ Runs(argv))

\* the run went through the parallel loop and main returned
Finished == pc = "exit" /\ Runs(argv)

ChunkCount(text) == Len(string_split(text, TAB))

\* the unordered pairs of distinct record indices
AllPairs == {p \in (1..NumRecords) \X (1..NumRecords) : p[1] < p[2]}

\* the output as lines: an "ids" item opens a line, an "ed" item adds a
\* distance to the open line, an "nl" item completes it
RECURSIVE OutLines(_, _, _)
OutLines(items, open, done) ==
    IF items = << >> THEN done
    ELSE LET it == Head(items)
         IN  IF it.kind = "ids"
             THEN OutLines(Tail(items), [id1 |-> it.id1, id2 |-> it.id2, eds |-> << >>], done)
             ELSE IF it.kind = "ed"
             THEN OutLines(Tail(items), [open EXCEPT !.eds = Append(@, it.ed)], done)
             ELSE OutLines(Tail(items), open, Append(done, open))

Output == OutLines(fout, [id1 |-> << >>, id2 |-> << >>, eds |-> << >>], << >>)

\* the items of one output line of a store with num_fields fields
LineWidth == Max2(num_fields, 0) + 2

\* the k-th group of LineWidth items of fout
Group(k) == SubSeq(fout, (k - 1) * LineWidth + 1, k * LineWidth)

\* the kind of the m-th item of a line
KindAt(m) == IF m = 1 THEN "ids" ELSE IF m = LineWidth THEN "nl" ELSE "ed"

\* items g are the first Len(g) items of a line of pair p, in order: the
\* two ids read through the views of the records, then distances
LinePrefixOf(g, p) ==
    /\ p \in AllPairs
    /\ \A m \in 1..Len(g) :
          /\ g[m].by = p
          /\ g[m].kind = KindAt(m)
          /\ m = 1 => /\ g[m].id1 = Read(lines[p[1]], lines[p[1]].id)
                      /\ g[m].id2 = Read(lines[p[2]], lines[p[2]].id)

\* the distances among items g are the first ones of eds, in order
DistancesOf(g, eds) ==
    \A m \in 2..Len(g) : m < LineWidth => g[m].ed = eds[m - 1]

CompleteLines == Cardinality({m \in 1..Len(fout) : fout[m].kind = "nl"})

-----------------------------------------------------------------------------
(* The claims.                                                             *)

\* C1: run() calls process() for each pair (i, j) with i < j exactly once,
\* under every assignment of the outer indices to threads and every
\* interleaving: no pair is processed twice, none with i = j or i > j, and
\* when the run has finished exactly n*(n-1)/2 pairs, all of them, were.
C1_EveryPairOnce ==
    /\ \A p \in BagToSet(calls) : p \in AllPairs /\ CopiesIn(p, calls) = 1
    /\ Finished =>
          /\ BagToSet(calls) = AllPairs
          /\ BagCardinality(calls) = (NumRecords * (NumRecords - 1)) \div 2

\* a finished run of two threads over three records
C1_Witness ==
    /\ Finished
    /\ nthreads = 2
    /\ NumRecords = 3
    /\ BagCardinality(calls) = 3

\* the complete lines are each the items of one pair, no pair has two, the
\* items after them are the start of the line of the holder of output_lock,
\* and the line that holder wrote last has the distances it computed
LinesAreWhole ==
    LET whole == Len(fout) \div LineWidth
        rest == SubSeq(fout, whole * LineWidth + 1, Len(fout))
        by == [k \in 1..whole |-> fout[(k - 1) * LineWidth + 1].by]
        last == IF rest = << >> THEN Group(whole) ELSE rest
    IN  /\ \A k \in 1..whole : LinePrefixOf(Group(k), by[k])
        /\ \A k, m \in 1..whole : by[k] = by[m] => k = m
        /\ \A k \in 1..whole : by[k] \in BagToSet(calls)
        /\ rest # << >> =>
              /\ output_lock # 0
              /\ LinePrefixOf(rest, << wi[output_lock], wj[output_lock] >>)
              /\ \A k \in 1..whole : by[k] # rest[1].by
        /\ (output_lock # 0
               /\ wpc[output_lock] \in {"write_eds", "inc", "unlock"}) =>
              /\ last[1].by = << wi[output_lock], wj[output_lock] >>
              /\ DistancesOf(last, weds[output_lock])
        /\ Finished =>
              /\ rest = << >>
              /\ {by[k] : k \in 1..whole} = BagToSet(calls)
              /\ whole = BagCardinality(calls)

\* C3: the output is a sequence of complete lines, each the items of one
\* pair (ids, its num_fields distances, newline) in order and unbroken,
\* followed at most by the line the holder of output_lock is writing, whose
\* distances are those of the eds that thread computed; what has been
\* written is never changed; no pair has two lines, and when the run has
\* finished every pair process() was called with has its line.
C3_LinesAreWhole ==
    /\ []LinesAreWhole
    /\ [][SubSeq(fout', 1, Len(fout)) = fout]_vars

\* one thread is in the middle of its line, after a complete line, while
\* another waits for output_lock with its distances computed
C3_Witness ==
    /\ pc = "parallel"
    /\ \E t, u \in 1..nthreads :
          /\ wpc[t] = "write_eds" /\ wk[t] > 1
          /\ wpc[u] = "lock"
    /\ Len(fout) > LineWidth

\* the store is the lines of the file that split on tab into at least 2
\* chunks and whose chunk count - 1 is that of the first such line, in input
\* order, each parsed into its id and fields
StoreIsTheWellFormedLines ==
    LET good == {k \in 1..Len(disk.text) : ChunkCount(disk.text[k]) >= 2}
        first == CHOOSE k \in good : \A m \in good : k <= m
        nf == ChunkCount(disk.text[first]) - 1
        Keep(text) == LET chunks == ChunkCount(text)
                      IN  chunks >= 2 /\ chunks - 1 = nf
        kept == IF good = {} THEN << >> ELSE SelectSeq(disk.text, Keep)
    IN  /\ NumRecords = Len(kept)
        /\ \A m \in 1..NumRecords :
              /\ buffer[lines[m].idx] = kept[m]
              /\ lines[m] = ParseLine(kept[m], lines[m].idx)
              /\ Len(lines[m].fields) = nf

\* C4: the store load() returns holds, in input order, exactly the lines
\* that split on tab into at least 2 chunks and whose chunk count - 1 is
\* that of the first such line, and run() and process() never change it;
\* every record has that number of fields, so process() never indexes
\* two.fields beyond its size.
C4_StoreIsTheWellFormedLines ==
    /\ [](\A a, b \in 1..NumRecords : Len(lines[a].fields) = Len(lines[b].fields))
    /\ []((pc = "run_setup" /\ disk.exists) => StoreIsTheWellFormedLines)
    /\ [][Loaded => lines' = lines]_vars

\* a load that dropped a one-chunk line and a line of another field count
\* and still loaded the well-formed line after them
C4_Witness ==
    /\ Loaded
    /\ Len(disk.text) = 3
    /\ ChunkCount(disk.text[1]) = 2
    /\ ChunkCount(disk.text[2]) \in {1, 3}
    /\ ChunkCount(disk.text[3]) = 2
    /\ NumRecords = 2
    /\ Len(cerr) = 1

\* C5: with n <= 1 records run() completes with no pair processed, no
\* output line and a progress total of 0, and building the Progbar with
\* total = 0 reaches no error state.
C5_SmallStoreRunsClean ==
    (Loaded /\ pc # "run_setup" /\ NumRecords <= 1) =>
        /\ pc # "crashed"
        /\ progbar.total = 0
        /\ fout = << >>
        /\ calls = EmptyBag

\* C6: when the input file cannot be opened the read loop of load() ends
\* and the process terminates with a nonzero exit status.
C6_OpenFailureIsFatal ==
    (pc = "load_while" /\ ~disk.exists) ~> (pc = "exit" /\ exitStatus # EXIT_SUCCESS)

HelpFirstOrSecond(av) ==
    \/ Len(av) >= 2 /\ av[2] = "--help"
    \/ Len(av) >= 3 /\ av[3] = "--help"

\* C8: if --help is the first or the second argument, main prints the usage
\* text and returns 0 without loading anything, also when --help is the
\* only argument.
C8_HelpExitsZero ==
    (pc = "exit" /\ HelpFirstOrSecond(argv)) =>
        /\ exitStatus = EXIT_SUCCESS
        /\ cerr = << << "usage" >> >>
        /\ buffer = << >>

\* the critical section of process, lines 235-241
InSection(t) == wpc[t] \in {"write_ids", "write_eds", "inc", "unlock"}

\* C9: a thread holds output_lock exactly while it writes its line and
\* calls progbar.inc(), not while it computes; whenever no thread holds it
\* the number of complete lines equals the Progbar's current; current never
\* exceeds total and never decreases; after the run both equal
\* total = n*(n-1)/2.
C9_LinesMatchProgress ==
    /\ [](/\ pc = "parallel" => \A t \in 1..nthreads : InSection(t) <=> output_lock = t
          /\ pc # "parallel" => output_lock = 0
          /\ output_lock = 0 => CompleteLines = progbar.current
          /\ progbar.current <= progbar.total
          /\ Finished =>
                /\ progbar.current = progbar.total
                /\ progbar.total = (NumRecords * (NumRecords - 1)) \div 2)
    /\ [][progbar'.current >= progbar.current]_vars

\* output_lock is free after two lines while a thread has computed its
\* distances and another is computing
C9_Witness ==
    /\ pc = "parallel"
    /\ output_lock = 0
    /\ progbar.current = 2
    /\ progbar.current < progbar.total
    /\ \E t \in 1..nthreads : wpc[t] = "lock"

\* C10: during the pair loop every view of every record points into text
\* the buffer still owns at that place, and reads the characters of the
\* line it was parsed from.
C10_ViewsStayValid ==
    pc \in {"fork", "parallel"} =>
        \A k \in 1..NumRecords :
            LET r == lines[k]
            IN  /\ r.idx \notin dangling
                /\ Read(r, r.id) = Slice(buffer[r.idx], r.id)
                /\ \A f \in 1..Len(r.fields) : \A t \in 1..Len(r.fields[f]) :
                      Read(r, r.fields[f][t]) = Slice(buffer[r.idx], r.fields[f][t])

=============================================================================
